---- MODULE Spec2Model ----
(***************************************************************************)
(* Model of picongpu.picmi.Simulation                                      *)
(* (src/lib/python/picongpu/picmi/simulation.py): the translation of a     *)
(* PICMI simulation into its PyPIConGPU form.                              *)
(***************************************************************************)
EXTENDS Integers, Sequences, FiniteSets, TLC

VARIABLES
    species,            \* self.species: the registered PICMI species (object ids)
    layouts,            \* self.layouts: layout handle per species, None if unplaced
    obj,                \* attributes of every PICMI species object, by object id
    electron_species,   \* self.__electron_species: the memoized electron species
    time_step_size,     \* self.time_step_size (optional float)
    solver,             \* self.solver: method, cfl (optional float), grid
    cfg,                \* the remaining attributes get_as_pypicongpu() reads
    last                \* the last operation: its name, the state before, its result

vars == <<species, layouts, obj, electron_species, time_step_size, solver, cfg, last>>

(***************************************************************************)
(* Python values.  A reference is an object id (a positive number) or      *)
(* None; an optional number is <<>> (None) or <<x>>.                       *)
(***************************************************************************)
None == 0
Nothing == <<>>
Some(x) == <<x>>
IsSet(o) == o # <<>>
Val(o) == o[1]

(***************************************************************************)
(* Floating point.  time_step_size, cfl and the grid extents are Python    *)
(* floats: every operation rounds its exact result to the nearest          *)
(* representable value, ties to even.  A float is m * 2^e with a mantissa  *)
(* of Precision bits; the exponent range is not bounded (no overflow or    *)
(* underflow happens for the magnitudes used here).                        *)
(***************************************************************************)
Precision == 4

RECURSIVE Pow2(_)
Pow2(n) == IF n = 0 THEN 1 ELSE 2 * Pow2(n - 1)

RECURSIVE BitLen(_)
BitLen(n) == IF n = 0 THEN 0 ELSE 1 + BitLen(n \div 2)

\* n * 2^e (n > 0) rounded to Precision bits, ties to even
Round(n, e) ==
    LET len == BitLen(n) IN
    IF len <= Precision
    THEN [m |-> n * Pow2(Precision - len), e |-> e - (Precision - len)]
    ELSE LET k    == len - Precision
             q    == n \div Pow2(k)
             r    == n % Pow2(k)
             half == Pow2(k - 1)
             up   == r > half \/ (r = half /\ q % 2 = 1)
             q2   == IF up THEN q + 1 ELSE q
         IN  IF q2 = Pow2(Precision)
             THEN [m |-> Pow2(Precision - 1), e |-> e + k + 1]
             ELSE [m |-> q2, e |-> e + k]

FromInt(n) == Round(n, 0)

FMul(a, b) == Round(a.m * b.m, a.e + b.e)

\* the quotient to Precision + 2 bits at least, and a sticky bit for the rest
FDiv(a, b) ==
    LET g   == Precision + 3
        num == a.m * Pow2(g)
        q   == num \div b.m
        s   == IF num % b.m = 0 THEN 0 ELSE 1
    IN  Round(2 * q + s, a.e - b.e - g - 1)

FAdd(a, b) ==
    LET e == IF a.e < b.e THEN a.e ELSE b.e
    IN  Round(a.m * Pow2(a.e - e) + b.m * Pow2(b.e - e), e)

\* a - b for a > b
FSub(a, b) ==
    LET e == IF a.e < b.e THEN a.e ELSE b.e
    IN  Round(a.m * Pow2(a.e - e) - b.m * Pow2(b.e - e), e)

\* the integer square root of n < bit * bit * 4, found bit by bit from `bit` down
RECURSIVE ISqrt(_, _, _)
ISqrt(n, r, bit) ==
    IF bit = 0 THEN r
    ELSE IF (r + bit) * (r + bit) <= n
         THEN ISqrt(n, r + bit, bit \div 2)
         ELSE ISqrt(n, r, bit \div 2)

\* math.sqrt: correctly rounded
FSqrt(a) ==
    LET g   == Precision + 2
        odd == a.e % 2 # 0
        n   == (IF odd THEN 2 * a.m ELSE a.m) * Pow2(2 * g)
        e   == (IF odd THEN a.e - 1 ELSE a.e) - 2 * g
        r   == ISqrt(n, 0, Pow2(g + Precision))
        s   == IF r * r = n THEN 0 ELSE 1
    IN  Round(2 * r + s, (e \div 2) - 1)

(***************************************************************************)
(* The state of the simulation object, as one record the operations are    *)
(* applied to, and the outcome of an operation: the simulation it leaves   *)
(* behind, the exception it raised ("none" if it returned) and what it     *)
(* returned or named in its error message.                                 *)
(***************************************************************************)
Self ==
    [species          |-> species,
     layouts          |-> layouts,
     obj              |-> obj,
     electron_species |-> electron_species,
     time_step_size   |-> time_step_size,
     solver           |-> solver,
     cfg              |-> cfg]

Outcome(self, err, ret) == [self |-> self, err |-> err, ret |-> ret]

\* the operation `op` was applied to the current simulation with outcome `out`
Apply(op, out) ==
    /\ species' = out.self.species
    /\ layouts' = out.self.layouts
    /\ obj' = out.self.obj
    /\ electron_species' = out.self.electron_species
    /\ time_step_size' = out.self.time_step_size
    /\ solver' = out.self.solver
    /\ cfg' = out.self.cfg
    /\ last' = [op |-> op, pre |-> Self, err |-> out.err, ret |-> out.ret]

(***************************************************************************)
(* Solver parameters: __yee_compute_cfl_or_delta_t                         *)
(***************************************************************************)
Zero == [m |-> 0, e |-> 0]
One == FromInt(1)

\* constants.c, the speed of light in m/s
c == FromInt(299792458)

\* delta_x, delta_y, delta_z
CellSize(grid, axis) ==
    FDiv(FSub(grid.upper_bound[axis], grid.lower_bound[axis]),
         FromInt(grid.number_of_cells[axis]))

\* constants.c * math.sqrt(1 / delta_x**2 + 1 / delta_y**2 + 1 / delta_z**2)
CourantFactor(grid) ==
    LET delta_x == CellSize(grid, 1)
        delta_y == CellSize(grid, 2)
        delta_z == CellSize(grid, 3)
        inv2(d) == FDiv(One, FMul(d, d))
    IN  FMul(c, FSqrt(FAdd(FAdd(inv2(delta_x), inv2(delta_y)), inv2(delta_z))))

\* variant: the check made on the cfl value instead of on the time step
YeeMismatchOfCfl(delta_t, cfl, grid) == FMul(delta_t, CourantFactor(grid)) # cfl

\* both given: the time step the cfl value stands for must be the one given
YeeMismatch(delta_t, cfl, grid) == FDiv(cfl, CourantFactor(grid)) # delta_t

yee_compute_cfl_or_delta_t(self) ==
    IF ~(self.solver.method = "Yee" /\ self.solver.grid.kind = "Cartesian3DGrid")
    THEN Outcome(self, "AssertionError", <<>>)
    ELSE
    LET grid == self.solver.grid
        dt   == self.time_step_size
        cfl  == self.solver.cfl
    IN  IF IsSet(dt) /\ IsSet(cfl)
        THEN IF YeeMismatch(Val(dt), Val(cfl), grid)
             THEN Outcome(self, "ValueError",
                          <<Val(dt), FDiv(Val(cfl), CourantFactor(grid))>>)
             ELSE Outcome(self, "none", <<>>)
        ELSE IF IsSet(dt)
        THEN Outcome([self EXCEPT !.solver.cfl =
                          Some(FMul(Val(dt), CourantFactor(grid)))],
                     "none", <<>>)
        ELSE IF IsSet(cfl)
        THEN Outcome([self EXCEPT !.time_step_size =
                          Some(FDiv(Val(cfl), CourantFactor(grid)))],
                     "none", <<>>)
        ELSE Outcome(self, "none", <<>>)

YeeComputeCflOrDeltaT == Apply("yee_compute_cfl_or_delta_t", yee_compute_cfl_or_delta_t(Self))

(***************************************************************************)
(* Solver parameters: the simulations the reconciliation is checked on.    *)
(* Time steps lie in [2^-30, 2^-29) s and cfl values in [1/2, 2); the grid *)
(* has unit or half-unit cells, so that cfl = time step * CourantFactor    *)
(* falls among the cfl values drawn.                                       *)
(***************************************************************************)
Mantissas == Pow2(Precision - 1) .. (Pow2(Precision) - 1)
TimeStepSizes == {[m |-> m, e |-> -(Precision - 1) - 30] : m \in Mantissas}
CflValues == {[m |-> m, e |-> -(Precision - 1) + k] : m \in Mantissas, k \in {-1, 0}}

Optional(S) == {Nothing} \cup {Some(x) : x \in S}

Grids ==
    {[kind |-> "Cartesian3DGrid",
      lower_bound |-> <<Zero, Zero, Zero>>,
      upper_bound |-> <<FromInt(ux), FromInt(2), FromInt(2)>>,
      number_of_cells |-> <<nx, 2, nz>>] : ux \in {2, 3}, nx \in {2, 3}, nz \in {2, 4}}
    \cup {[kind |-> "other",
           lower_bound |-> <<Zero, Zero, Zero>>,
           upper_bound |-> <<One, One, One>>,
           number_of_cells |-> <<1, 1, 1>>]}

NoUserInput ==
    [max_steps |-> Some(1),
     max_time |-> Nothing,
     verbose |-> Nothing,
     particle_shape |-> "linear",
     gamma_boost |-> Nothing,
     laser_injection_methods |-> <<>>,
     lasers |-> <<>>,
     picongpu_typical_ppc |-> Nothing,
     picongpu_moving_window_move_point |-> Nothing,
     picongpu_moving_window_stop_iteration |-> Nothing,
     picongpu_custom_user_input |-> Nothing]

NotCalled == [op |-> "none", pre |-> <<>>, err |-> "none", ret |-> <<>>]

InitYee ==
    /\ species = <<>>
    /\ layouts = <<>>
    /\ obj = <<>>
    /\ electron_species = None
    /\ time_step_size \in Optional(TimeStepSizes)
    /\ \E method \in {"Yee", "PSATD"}, cfl \in Optional(CflValues), grid \in Grids :
           solver = [method |-> method, cfl |-> cfl, grid |-> grid]
    /\ cfg = NoUserInput
    /\ last = NotCalled

NextYee == YeeComputeCflOrDeltaT

SpecYee == InitYee /\ [][NextYee]_vars

(***************************************************************************)
(* PICMI species.  A species object has the attributes                     *)
(*   name, particle_type, mass, charge, initial_distribution,              *)
(*   density_scale, ionization_models (how many ionization models it       *)
(*   carries) and picongpu_ionization_electrons (the donor reference).     *)
(* obj[id] holds the attributes of the object with that id, registered     *)
(* with the simulation or not.                                             *)
(***************************************************************************)
\* constants.m_e and constants.q_e, in units of 1e-9 of themselves
m_e == 1000000000
q_e == 1000000000
\* math.isclose: rel_tol = 1e-09, abs_tol = 0.0
RelTolInverse == 1000000000

Abs(x) == IF x < 0 THEN -x ELSE x
Max(x, y) == IF x < y THEN y ELSE x

isclose(a, b) == Abs(a - b) <= Max(Abs(a), Abs(b)) \div RelTolInverse

\* variant: electrons recognised by their particle_type alone
IsElectronByTypeOnly(picmi_species) == picmi_species.particle_type = Some("electron")

\* the test of the loop in __get_electron_species
IsElectron(picmi_species) ==
    \/ picmi_species.particle_type = Some("electron")
    \/ /\ IsSet(picmi_species.mass)
       /\ isclose(Val(picmi_species.mass), m_e)
       /\ IsSet(picmi_species.charge)
       /\ isclose(Val(picmi_species.charge), -q_e)

\* picmistandard's add_species: both sequences grow by one
add_species(self, id, layout) ==
    [self EXCEPT !.species = Append(@, id), !.layouts = Append(@, layout)]

\* PicongpuPicmiSpecies(name=electrons_name, particle_type="electron")
NewElectrons(electrons_name) ==
    [name |-> electrons_name,
     particle_type |-> Some("electron"),
     mass |-> Nothing,
     charge |-> Nothing,
     initial_distribution |-> None,
     density_scale |-> Nothing,
     ionization_models |-> 0,
     picongpu_ionization_electrons |-> None]

\* variant: the name is not checked against the names in use
FirstName(electrons_name, all_species_names) == electrons_name

\* electrons_name = "e"; while electrons_name in all_species_names: += "_"
RECURSIVE UnambiguousName(_, _)
UnambiguousName(electrons_name, all_species_names) ==
    IF electrons_name \in all_species_names
    THEN UnambiguousName(electrons_name \o "_", all_species_names)
    ELSE electrons_name

SpeciesNames(self, ids) == [i \in 1..Len(ids) |-> self.obj[ids[i]].name]
Range(seq) == {seq[i] : i \in 1..Len(seq)}

\* variant: the memoized species is never used
IsCachedNever(self) == FALSE

\* "use caching": the memoized species, once there is one
IsCached(self) == self.electron_species # None

get_electron_species(self) ==
    IF IsCached(self)
    THEN Outcome(self, "none", self.electron_species)
    ELSE
    LET is_electron(id) == IsElectron(self.obj[id])
        all_electrons == SelectSeq(self.species, is_electron)
    IN  IF Len(all_electrons) = 1
        THEN Outcome([self EXCEPT !.electron_species = all_electrons[1]],
                     "none", all_electrons[1])
        ELSE IF Len(all_electrons) = 0
        THEN LET all_species_names == Range(SpeciesNames(self, self.species))
                 electrons_name == UnambiguousName("e", all_species_names)
                 electrons == Len(self.obj) + 1
                 created == [self EXCEPT !.obj = Append(@, NewElectrons(electrons_name))]
                 added == add_species(created, electrons, None)
             IN  Outcome([added EXCEPT !.electron_species = electrons],
                         "none", electrons)
        ELSE Outcome(self, "ValueError", SpeciesNames(self, all_electrons))

\* Species.has_ionizers()
has_ionizers(picmi_species) == picmi_species.ionization_models > 0

\* variant: a donor set by the user is overwritten
NeedsElectronsAlways(picmi_species) == has_ionizers(picmi_species)

\* neither "continue" of the loop of __resolve_electrons is taken
NeedsElectrons(picmi_species) ==
    /\ has_ionizers(picmi_species)
    /\ picmi_species.picongpu_ionization_electrons = None

\* the loop of __resolve_electrons from position i of self.species on; the
\* list may grow while it is iterated
RECURSIVE ResolveElectronsFrom(_, _)
ResolveElectronsFrom(self, i) ==
    IF i > Len(self.species)
    THEN Outcome(self, "none", <<>>)
    ELSE LET id == self.species[i]
         IN  IF ~NeedsElectrons(self.obj[id])
             THEN ResolveElectronsFrom(self, i + 1)
             ELSE LET got == get_electron_species(self)
                  IN  IF got.err # "none"
                      THEN got
                      ELSE ResolveElectronsFrom(
                               [got.self EXCEPT
                                   !.obj[id].picongpu_ionization_electrons = got.ret],
                               i + 1)

resolve_electrons(self) == ResolveElectronsFrom(self, 1)

GetElectronSpecies == Apply("get_electron_species", get_electron_species(Self))

ResolveElectrons == Apply("resolve_electrons", resolve_electrons(Self))

\* the user registers one more species: add_species(species, layout)
AddSpecies ==
    \E id \in 1..Len(obj), layout \in {None} :
        /\ id \notin Range(species)
        /\ obj[id].name \notin Range(SpeciesNames(Self, species))
        /\ Apply("add_species", Outcome(add_species(Self, id, layout), "none", <<>>))

(***************************************************************************)
(* Electron resolution: the simulations it is checked on.  Up to           *)
(* MaxSpecies species are registered, none of them placed; one more        *)
(* species object exists that the user may register later.  Names are      *)
(* unique: object i is called "e" or "ion", followed by i - 1 underscores. *)
(***************************************************************************)
MaxSpecies == 2

RECURSIVE Escaped(_, _)
Escaped(base, n) == IF n = 0 THEN base ELSE Escaped(base, n - 1) \o "_"

Tagged == [particle_type |-> Some("electron"), mass |-> Nothing, charge |-> Nothing]
ByMassAndCharge == [particle_type |-> Nothing, mass |-> Some(m_e + 1), charge |-> Some(-q_e)]
NearMiss == [particle_type |-> Nothing, mass |-> Some(m_e), charge |-> Some(-q_e - 2)]
Plain == [particle_type |-> Nothing, mass |-> Nothing, charge |-> Nothing]

\* what the user makes a species object of and registers it with; has_donor:
\* the user has set the donor
Variants(kinds, placements, scales, models, donors) ==
    { [particle_type |-> kind.particle_type,
       mass |-> kind.mass,
       charge |-> kind.charge,
       layout |-> placement[1],
       initial_distribution |-> placement[2],
       density_scale |-> scale,
       ionization_models |-> ionization_models,
       has_donor |-> has_donor] :
        kind \in kinds, placement \in placements, scale \in scales,
        ionization_models \in models, has_donor \in donors }

\* the species object with id i among n objects made of v, and its layout; a
\* donor set by the user is the object with the next id, cyclically
SpeciesObject(i, n, name, v) ==
    [object |->
        [name |-> name,
         particle_type |-> v.particle_type,
         mass |-> v.mass,
         charge |-> v.charge,
         initial_distribution |-> v.initial_distribution,
         density_scale |-> v.density_scale,
         ionization_models |-> v.ionization_models,
         picongpu_ionization_electrons |-> IF v.has_donor THEN (i % n) + 1 ELSE None],
     layout |-> v.layout]

\* all sequences of n species objects with their layouts, the last one made
\* of a variant of `spare`; names are unique
RECURSIVE ObjectsUpTo(_, _, _, _, _)
ObjectsUpTo(i, n, bases, variants, spare) ==
    IF i = 0 THEN {<<>>}
    ELSE { Append(before, SpeciesObject(i, n, Escaped(base, i - 1), v)) :
             before \in ObjectsUpTo(i - 1, n, bases, variants, spare),
             base \in bases,
             v \in {v \in (IF i = n THEN spare ELSE variants) : v.has_donor => n > 1} }

\* k registered species made of `variants` and, when `spare` is not empty, one
\* more species object that is not registered
InitSpecies(k, bases, variants, spare) ==
    LET n == IF spare = {} THEN k ELSE k + 1
    IN  \E made \in ObjectsUpTo(n, n, bases, variants, IF spare = {} THEN variants ELSE spare) :
           /\ species = [i \in 1..k |-> i]
           /\ layouts = [i \in 1..k |-> made[i].layout]
           /\ obj = [i \in 1..n |-> made[i].object]

Unplaced == <<None, None>>

ElectronVariants ==
    Variants({Tagged, ByMassAndCharge, NearMiss}, {Unplaced}, {Nothing}, {0}, {FALSE})
    \cup Variants({Plain}, {Unplaced}, {Nothing}, {0, 1}, {FALSE, TRUE})

ElectronSpare == Variants({Tagged, Plain}, {Unplaced}, {Nothing}, {0}, {FALSE})

DefaultSolver ==
    [method |-> "Yee", cfl |-> Nothing,
     grid |-> CHOOSE g \in Grids : g.kind = "Cartesian3DGrid"]

InitElectrons ==
    /\ \E k \in 0..MaxSpecies : InitSpecies(k, {"e", "ion"}, ElectronVariants, ElectronSpare)
    /\ electron_species = None
    /\ time_step_size = Nothing
    /\ solver = DefaultSolver
    /\ cfg = NoUserInput
    /\ last = NotCalled

NextElectrons == GetElectronSpecies \/ ResolveElectrons \/ AddSpecies

SpecElectrons == InitElectrons /\ [][NextElectrons]_vars

(***************************************************************************)
(* Layouts and profiles (initial distributions) are objects too; the       *)
(* grouping of species compares them by value.  Layouts 1 and 2 are equal  *)
(* by value, and so are profiles 1 and 2.                                  *)
(***************************************************************************)
LayoutValue(layout) ==
    CASE layout \in {1, 2} -> [kind |-> "PseudoRandomLayout", n_macroparticles_per_cell |-> 2]
      [] layout = 3 -> [kind |-> "PseudoRandomLayout", n_macroparticles_per_cell |-> 4]
      [] OTHER -> [kind |-> "GriddedLayout", n_macroparticles_per_cell |-> 1]

ProfileValue(profile) ==
    CASE profile \in {1, 2} -> "UniformDistribution"
      [] OTHER -> "GaussianBunchDistribution"

\* the keys of the dictionaries of __get_operations_simple_density
SameLayout(a, b) == LayoutValue(a) = LayoutValue(b)
SameProfile(a, b) == ProfileValue(a) = ProfileValue(b)

(***************************************************************************)
(* The initialization plan (InitManager): all_species, the translated      *)
(* species, and all_operations.  A translated species is known by its      *)
(* position in all_species; operations and ionization models refer to it   *)
(* by that position.                                                       *)
(***************************************************************************)
\* picmi_species.get_as_pypicongpu(): a new object, its ionization models
\* without their electron species yet
Translated(self, id) ==
    [name |-> self.obj[id].name,
     picmi |-> id,
     ionization_models |->
        [k \in 1..self.obj[id].ionization_models |-> [ionization_electron_species |-> None]]]

\* pypic_species.has_constant_of_type(GroundStateIonization)
HasGroundStateIonization(pypic_species) == Len(pypic_species.ionization_models) > 0

\* pypicongpu_by_picmi_species after the loop of __get_init_manager: each
\* registered species maps to its latest translation
Mapping(self) ==
    [id \in Range(self.species) |->
        CHOOSE i \in 1..Len(self.species) :
            /\ self.species[i] = id
            /\ \A j \in (i + 1)..Len(self.species) : self.species[j] # id]

\* the keys of pypicongpu_by_picmi_species in the order of their insertion
RECURSIVE KeysFrom(_, _, _)
KeysFrom(seq, i, keys) ==
    IF i > Len(seq) THEN keys
    ELSE KeysFrom(seq, i + 1, IF seq[i] \in Range(keys) THEN keys ELSE Append(keys, seq[i]))

Keys(self) == KeysFrom(self.species, 1, <<>>)

\* the loop without its assertion: a donor that is no key is passed over
RECURSIVE FillIonizationElectronsUnchecked(_, _, _)
FillIonizationElectronsUnchecked(self, all_species, k) ==
    IF k > Len(Keys(self))
    THEN [err |-> "none", all_species |-> all_species]
    ELSE LET picmi_species == Keys(self)[k]
             at == Mapping(self)[picmi_species]
             donor == self.obj[picmi_species].picongpu_ionization_electrons
         IN  IF ~HasGroundStateIonization(all_species[at]) \/ donor \notin DOMAIN Mapping(self)
             THEN FillIonizationElectronsUnchecked(self, all_species, k + 1)
             ELSE FillIonizationElectronsUnchecked(
                      self,
                      [all_species EXCEPT ![at].ionization_models =
                          [m \in DOMAIN @ |->
                              [ionization_electron_species |-> Mapping(self)[donor]]]],
                      k + 1)

\* the loop of __fill_ionization_electrons from key k on; the outcome is the
\* translated species, with the links set so far
RECURSIVE FillIonizationElectronsFrom(_, _, _)
FillIonizationElectronsFrom(self, all_species, k) ==
    IF k > Len(Keys(self))
    THEN [err |-> "none", all_species |-> all_species]
    ELSE LET picmi_species == Keys(self)[k]
             at == Mapping(self)[picmi_species]
             donor == self.obj[picmi_species].picongpu_ionization_electrons
         IN  IF ~HasGroundStateIonization(all_species[at])
             THEN FillIonizationElectronsFrom(self, all_species, k + 1)
             ELSE IF donor \notin DOMAIN Mapping(self)
             THEN [err |-> IF donor = None THEN "AttributeError" ELSE "AssertionError",
                   all_species |-> all_species]
             ELSE FillIonizationElectronsFrom(
                      self,
                      [all_species EXCEPT ![at].ionization_models =
                          [m \in DOMAIN @ |->
                              [ionization_electron_species |-> Mapping(self)[donor]]]],
                      k + 1)

fill_ionization_electrons(self, all_species) ==
    FillIonizationElectronsFrom(self, all_species, 1)

\* position of the key equal to `layout` in a dictionary kept as a sequence
\* of entries, 0 if there is none
FindLayout(by_layout, layout) ==
    IF \E i \in 1..Len(by_layout) : SameLayout(by_layout[i].key, layout)
    THEN CHOOSE i \in 1..Len(by_layout) : SameLayout(by_layout[i].key, layout)
    ELSE 0

FindProfile(by_profile, profile) ==
    IF \E i \in 1..Len(by_profile) : SameProfile(by_profile[i].key, profile)
    THEN CHOOSE i \in 1..Len(by_profile) : SameProfile(by_profile[i].key, profile)
    ELSE 0

\* the grouping by layout alone: one list of species per layout
GroupedByLayout(by_layout, layout, profile, picmi_species) ==
    LET with_layout ==
            IF FindLayout(by_layout, layout) = 0
            THEN Append(by_layout,
                        [key |-> layout, value |-> <<[key |-> profile, value |-> <<>>]>>])
            ELSE by_layout
        l == FindLayout(with_layout, layout)
    IN  [with_layout EXCEPT ![l].value[1].value = Append(@, picmi_species)]

\* picmi_species_by_profile_by_layout[layout][profile].append(picmi_species)
Grouped(by_layout, layout, profile, picmi_species) ==
    LET with_layout ==
            IF FindLayout(by_layout, layout) = 0
            THEN Append(by_layout, [key |-> layout, value |-> <<>>])
            ELSE by_layout
        l == FindLayout(with_layout, layout)
        by_profile == with_layout[l].value
        with_profile ==
            IF FindProfile(by_profile, profile) = 0
            THEN Append(by_profile, [key |-> profile, value |-> <<>>])
            ELSE by_profile
        q == FindProfile(with_profile, profile)
    IN  [with_layout EXCEPT ![l].value =
            [with_profile EXCEPT ![q].value = Append(@, picmi_species)]]

\* the first loop of __get_operations_simple_density
RECURSIVE GroupFrom(_, _, _)
GroupFrom(self, i, by_layout) ==
    IF i > Len(self.species) \/ i > Len(self.layouts)
    THEN by_layout
    ELSE LET picmi_species == self.species[i]
             layout == self.layouts[i]
             profile == self.obj[picmi_species].initial_distribution
         IN  IF layout = None \/ profile = None
             THEN GroupFrom(self, i + 1, by_layout)
             ELSE GroupFrom(self, i + 1, Grouped(by_layout, layout, profile, picmi_species))

\* the operation of one group
SimpleDensity(self, layout, profile, picmi_species_list) ==
    [type |-> "SimpleDensity",
     ppc |-> LayoutValue(layout).n_macroparticles_per_cell,
     profile |-> ProfileValue(profile),
     species |-> {Mapping(self)[picmi_species_list[i]] : i \in 1..Len(picmi_species_list)}]

\* the second loop ("re-group as operations"): one operation per layout and
\* profile, in the order the keys were inserted
RECURSIVE OperationsOfGroups(_, _, _, _, _)
OperationsOfGroups(self, by_layout, l, q, all_operations) ==
    IF l > Len(by_layout)
    THEN [err |-> "none", all_operations |-> all_operations]
    ELSE IF q > Len(by_layout[l].value)
    THEN OperationsOfGroups(self, by_layout, l + 1, 1, all_operations)
    ELSE IF LayoutValue(by_layout[l].key).kind # "PseudoRandomLayout"
    THEN [err |-> "AssertionError", all_operations |-> all_operations]
    ELSE OperationsOfGroups(self, by_layout, l, q + 1,
             Append(all_operations,
                    SimpleDensity(self, by_layout[l].key, by_layout[l].value[q].key,
                                  by_layout[l].value[q].value)))

get_operations_simple_density(self) ==
    OperationsOfGroups(self, GroupFrom(self, 1, <<>>), 1, 1, <<>>)

\* the loop left at the first species that is not placed
RECURSIVE NotPlacedFromFirst(_, _, _)
NotPlacedFromFirst(self, i, all_operations) ==
    IF i > Len(self.species) \/ i > Len(self.layouts)
    THEN all_operations
    ELSE IF self.layouts[i] # None \/ self.obj[self.species[i]].initial_distribution # None
    THEN NotPlacedFromFirst(self, i + 1, all_operations)
    ELSE Append(all_operations,
                [type |-> "NotPlaced", species |-> Mapping(self)[self.species[i]]])

\* the loop of __get_operations_not_placed
RECURSIVE NotPlacedFrom(_, _, _)
NotPlacedFrom(self, i, all_operations) ==
    IF i > Len(self.species) \/ i > Len(self.layouts)
    THEN all_operations
    ELSE IF self.layouts[i] # None \/ self.obj[self.species[i]].initial_distribution # None
    THEN NotPlacedFrom(self, i + 1, all_operations)
    ELSE NotPlacedFrom(self, i + 1,
             Append(all_operations,
                    [type |-> "NotPlaced", species |-> Mapping(self)[self.species[i]]]))

get_operations_not_placed(self) == NotPlacedFrom(self, 1, <<>>)

\* picmi_species.get_independent_operations(pypicongpu_species): the
\* operations of one species alone (its momentum)
get_independent_operations(self, picmi_species) ==
    <<[type |-> "Independent", species |-> Mapping(self)[picmi_species]]>>

RECURSIVE IndividualFrom(_, _, _)
IndividualFrom(self, k, all_operations) ==
    IF k > Len(Keys(self))
    THEN all_operations
    ELSE IndividualFrom(self, k + 1,
             all_operations \o get_independent_operations(self, Keys(self)[k]))

get_operations_from_individual_species(self) == IndividualFrom(self, 1, <<>>)

\* the two assertions of the precondition loop of __get_init_manager, for
\* one species and its layout
PreconditionsHold(layout, picmi_species) ==
    LET profile == picmi_species.initial_distribution
        ratio == picmi_species.density_scale
    IN  /\ (layout = None) = (profile = None)
        /\ IsSet(ratio) => (layout # None /\ profile # None)

\* the checks of __get_init_manager that come before the translation
CheckPreconditions(self) ==
    /\ Len(self.species) = Len(self.layouts)
    /\ \A i \in 1..Len(self.species) :
          PreconditionsHold(self.layouts[i], self.obj[self.species[i]])

InitManager(all_species, all_operations) ==
    [all_species |-> all_species, all_operations |-> all_operations]

\* the operations of the species not placed put first
AssembleNotPlacedFirst(self) ==
    LET translated == [i \in 1..Len(self.species) |-> Translated(self, self.species[i])]
        filled == fill_ionization_electrons(self, translated)
        density == get_operations_simple_density(self)
    IN  IF filled.err # "none"
        THEN Outcome(self, filled.err, InitManager(filled.all_species, <<>>))
        ELSE IF density.err # "none"
        THEN Outcome(self, density.err, InitManager(filled.all_species, <<>>))
        ELSE Outcome(self, "none",
                 InitManager(filled.all_species,
                             get_operations_not_placed(self)
                                 \o density.all_operations
                                 \o get_operations_from_individual_species(self)))

\* __get_init_manager from the translation on
Assemble(self) ==
    LET translated == [i \in 1..Len(self.species) |-> Translated(self, self.species[i])]
        filled == fill_ionization_electrons(self, translated)
        density == get_operations_simple_density(self)
    IN  IF filled.err # "none"
        THEN Outcome(self, filled.err, InitManager(filled.all_species, <<>>))
        ELSE IF density.err # "none"
        THEN Outcome(self, density.err, InitManager(filled.all_species, <<>>))
        ELSE Outcome(self, "none",
                 InitManager(filled.all_species,
                             density.all_operations
                                 \o get_operations_not_placed(self)
                                 \o get_operations_from_individual_species(self)))

\* the preconditions checked after the plan is assembled
get_init_manager_checked_late(self) ==
    IF Assemble(self).err = "none" /\ ~CheckPreconditions(self)
    THEN Outcome(self, "AssertionError", Assemble(self).ret)
    ELSE Assemble(self)

\* the outcome holds the InitManager returned or, when an exception is
\* raised, the InitManager as filled up to then
get_init_manager(self) ==
    IF ~CheckPreconditions(self)
    THEN Outcome(self, "AssertionError", InitManager(<<>>, <<>>))
    ELSE Assemble(self)

GetInitManager == Apply("get_init_manager", get_init_manager(Self))

(***************************************************************************)
(* get_as_pypicongpu                                                       *)
(***************************************************************************)
\* util.unsupported(name, value, default): raises unless value is the default
unsupported(value, default) == value # default

\* the checks of get_as_pypicongpu between the time steps and the electrons:
\* the name of the exception raised, "none" if all pass
UnsupportedFeature(self) ==
    IF \/ unsupported(self.cfg.verbose, Nothing)
       \/ unsupported(self.cfg.particle_shape, "linear")
       \/ unsupported(self.cfg.gamma_boost, Nothing)
       \/ self.solver.grid.kind # "Cartesian3DGrid"
       \/ \E i \in 1..Len(self.cfg.laser_injection_methods) :
              self.cfg.laser_injection_methods[i] # None
       \/ Len(self.cfg.lasers) > 1
    THEN "UnsupportedFeatureError"
    ELSE "none"

\* s.time_steps, or the exception raised instead
TimeSteps(self) ==
    IF IsSet(self.cfg.max_steps)
    THEN [err |-> "none", value |-> Val(self.cfg.max_steps)]
    ELSE IF IsSet(self.cfg.max_time)
    THEN IF IsSet(self.time_step_size)
         THEN [err |-> "none", value |-> FDiv(Val(self.cfg.max_time), Val(self.time_step_size))]
         ELSE [err |-> "TypeError", value |-> 0]
    ELSE [err |-> "ValueError", value |-> 0]

RECURSIVE Insert(_, _)
Insert(sorted, x) ==
    IF sorted = <<>> THEN <<x>>
    ELSE IF x <= Head(sorted) THEN <<x>> \o sorted
    ELSE <<Head(sorted)>> \o Insert(Tail(sorted), x)

RECURSIVE Sorted(_)
Sorted(seq) == IF seq = <<>> THEN <<>> ELSE Insert(Sorted(Tail(seq)), Head(seq))

\* InitManager.get_typical_particle_per_cell(): the median of the sampling
\* counts of the SimpleDensity operations (the mean of the middle two for an
\* even number of them), 1 if there is none
get_typical_particle_per_cell(init_manager) ==
    LET is_density(op) == op.type = "SimpleDensity"
        density == SelectSeq(init_manager.all_operations, is_density)
        ppcs == Sorted([i \in 1..Len(density) |-> density[i].ppc])
        n == Len(ppcs)
    IN  IF n = 0 THEN 1
        ELSE IF n % 2 = 1 THEN ppcs[(n + 1) \div 2]
        ELSE (ppcs[n \div 2] + ppcs[n \div 2 + 1]) \div 2

\* the Simulation returned, given the time steps and the InitManager
PyPIConGPUSimulation(self, time_steps, init_manager, typical_ppc) ==
    [delta_t_si |-> self.time_step_size,
     solver |-> [method |-> self.solver.method, cfl |-> self.solver.cfl],
     custom_user_input |-> self.cfg.picongpu_custom_user_input,
     time_steps |-> time_steps,
     grid |-> self.solver.grid,
     laser |-> IF Len(self.cfg.lasers) = 1 THEN self.cfg.lasers[1] ELSE None,
     init_manager |-> init_manager,
     typical_ppc |-> typical_ppc,
     moving_window |->
        IF IsSet(self.cfg.picongpu_moving_window_move_point)
        THEN Some([move_point |-> Val(self.cfg.picongpu_moving_window_move_point),
                   stop_iteration |-> self.cfg.picongpu_moving_window_stop_iteration])
        ELSE Nothing]

\* the plan assembled before the electrons are resolved
AssembleAndResolve(self, time_steps) ==
    LET assembled == get_init_manager(self)
        resolved == resolve_electrons(self)
        typical_ppc ==
            IF IsSet(self.cfg.picongpu_typical_ppc)
            THEN Val(self.cfg.picongpu_typical_ppc)
            ELSE get_typical_particle_per_cell(assembled.ret)
    IN  IF assembled.err # "none" THEN Outcome(self, assembled.err, <<>>)
        ELSE IF resolved.err # "none" THEN Outcome(resolved.self, resolved.err, <<>>)
        ELSE IF typical_ppc < 1 THEN Outcome(resolved.self, "ValueError", <<>>)
        ELSE Outcome(resolved.self, "none",
                     PyPIConGPUSimulation(resolved.self, time_steps,
                                          assembled.ret, typical_ppc))

\* the electrons appended to copies of species and layouts: the lists of the
\* simulation stay as they were
ResolveOnCopiesAndAssemble(self, time_steps) ==
    LET resolved == resolve_electrons(self)
        assembled == get_init_manager(resolved.self)
        kept == [assembled.self EXCEPT !.species = self.species, !.layouts = self.layouts]
        typical_ppc ==
            IF IsSet(self.cfg.picongpu_typical_ppc)
            THEN Val(self.cfg.picongpu_typical_ppc)
            ELSE get_typical_particle_per_cell(assembled.ret)
    IN  IF resolved.err # "none" THEN Outcome(kept, resolved.err, <<>>)
        ELSE IF assembled.err # "none" THEN Outcome(kept, assembled.err, <<>>)
        ELSE IF typical_ppc < 1 THEN Outcome(kept, "ValueError", <<>>)
        ELSE Outcome(kept, "none",
                     PyPIConGPUSimulation(assembled.self, time_steps,
                                          assembled.ret, typical_ppc))

\* the typical ppc handed on as it is, whatever its value
ResolveAndAssembleAnyPpc(self, time_steps) ==
    LET resolved == resolve_electrons(self)
        assembled == get_init_manager(resolved.self)
        typical_ppc ==
            IF IsSet(self.cfg.picongpu_typical_ppc)
            THEN Val(self.cfg.picongpu_typical_ppc)
            ELSE get_typical_particle_per_cell(assembled.ret)
    IN  IF resolved.err # "none" THEN Outcome(resolved.self, resolved.err, <<>>)
        ELSE IF assembled.err # "none" THEN Outcome(assembled.self, assembled.err, <<>>)
        ELSE Outcome(assembled.self, "none",
                     PyPIConGPUSimulation(assembled.self, time_steps,
                                          assembled.ret, typical_ppc))

\* get_as_pypicongpu from "resolve electrons" on
ResolveAndAssemble(self, time_steps) ==
    LET resolved == resolve_electrons(self)
        assembled == get_init_manager(resolved.self)
        typical_ppc ==
            IF IsSet(self.cfg.picongpu_typical_ppc)
            THEN Val(self.cfg.picongpu_typical_ppc)
            ELSE get_typical_particle_per_cell(assembled.ret)
    IN  IF resolved.err # "none" THEN Outcome(resolved.self, resolved.err, <<>>)
        ELSE IF assembled.err # "none" THEN Outcome(assembled.self, assembled.err, <<>>)
        ELSE IF typical_ppc < 1 THEN Outcome(assembled.self, "ValueError", <<>>)
        ELSE Outcome(assembled.self, "none",
                     PyPIConGPUSimulation(assembled.self, time_steps,
                                          assembled.ret, typical_ppc))

get_as_pypicongpu(self) ==
    IF TimeSteps(self).err # "none"
    THEN Outcome(self, TimeSteps(self).err, <<>>)
    ELSE IF UnsupportedFeature(self) # "none"
    THEN Outcome(self, UnsupportedFeature(self), <<>>)
    ELSE ResolveAndAssemble(self, TimeSteps(self).value)

GetAsPypicongpu == Apply("get_as_pypicongpu", get_as_pypicongpu(Self))

(***************************************************************************)
(* Placement: the simulations the operations are checked on.  Up to        *)
(* MaxPlaced species, each registered with a layout and a profile (by      *)
(* value, some equal and some not), with neither, or with one of them      *)
(* missing.                                                                *)
(***************************************************************************)
MaxPlaced == 3

PlacementVariants ==
    Variants({Plain}, {<<1, 1>>, <<2, 1>>, <<1, 2>>, <<3, 1>>, <<1, 3>>, <<3, 3>>, <<4, 1>>,
                       Unplaced, <<1, None>>, <<None, 1>>},
             {Nothing}, {0}, {FALSE})
    \cup Variants({Plain}, {<<2, 2>>, Unplaced}, {Some(2)}, {0}, {FALSE})
    \cup Variants({Plain}, {Unplaced}, {Nothing}, {1}, {FALSE})

InitPlacement ==
    /\ \E k \in 0..MaxPlaced : InitSpecies(k, {"ion"}, PlacementVariants, {})
    /\ electron_species = None
    /\ time_step_size = Nothing
    /\ solver = DefaultSolver
    /\ cfg = NoUserInput
    /\ last = NotCalled

NextPlacement == GetInitManager \/ GetAsPypicongpu

SpecPlacement == InitPlacement /\ [][NextPlacement]_vars

(***************************************************************************)
(* Ionization: up to MaxSpecies registered species, with ionization models *)
(* or without, with a donor set by the user or without, and one more       *)
(* species object that the user may register later.                        *)
(***************************************************************************)
IonizationVariants ==
    Variants({Tagged}, {Unplaced}, {Nothing}, {0}, {FALSE})
    \cup Variants({Plain}, {Unplaced, <<1, 1>>}, {Nothing}, {1}, {FALSE, TRUE})
    \cup Variants({Plain}, {<<3, 1>>}, {Nothing}, {2}, {FALSE})
    \cup Variants({Plain}, {Unplaced}, {Nothing}, {0}, {FALSE})

IonizationSpare == Variants({Tagged}, {Unplaced}, {Nothing}, {0}, {FALSE})

UserInputs ==
    { NoUserInput,
      [NoUserInput EXCEPT !.max_steps = Nothing],
      [NoUserInput EXCEPT !.picongpu_typical_ppc = Some(0)] }

InitIonization ==
    /\ \E k \in 0..MaxSpecies :
          InitSpecies(k, {"e", "ion"}, IonizationVariants, IonizationSpare)
    /\ electron_species = None
    /\ time_step_size = Nothing
    /\ solver = DefaultSolver
    /\ cfg \in UserInputs
    /\ last = NotCalled

NextIonization == ResolveElectrons \/ GetInitManager \/ GetAsPypicongpu

SpecIonization == InitIonization /\ [][NextIonization]_vars

(***************************************************************************)
(* Construction.  __init__ receives the attributes of the simulation (the  *)
(* initial state holds them) and picongpu_template_dir: the path given, if *)
(* any, and whether it is a directory.  Later the caller may assign        *)
(* time_step_size and solver.cfl.                                          *)
(***************************************************************************)
\* the checks of picongpu_template_dir at the end of __init__: the exception
\* raised, "none" if all pass
TemplateDirError(picongpu_template_dir) ==
    IF picongpu_template_dir.path = Some("") THEN "ValueError"
    ELSE IF ~IsSet(picongpu_template_dir.path) THEN "TypeError"
    ELSE IF picongpu_template_dir.is_dir THEN "ValueError"
    ELSE "none"

\* the constructor without the reconciliation of time step and cfl
Simulation_init_unreconciled(self, picongpu_template_dir) ==
    Outcome(self, TemplateDirError(picongpu_template_dir), <<>>)

Simulation_init(self, picongpu_template_dir) ==
    LET reconciled ==
            IF self.solver.method = "Yee" /\ self.solver.grid.kind = "Cartesian3DGrid"
            THEN yee_compute_cfl_or_delta_t(self)
            ELSE Outcome(self, "none", <<>>)
    IN  IF reconciled.err # "none" THEN reconciled
        ELSE Outcome(reconciled.self, TemplateDirError(picongpu_template_dir), <<>>)

TemplateDirs ==
    { [path |-> Nothing, is_dir |-> FALSE],
      [path |-> Some(""), is_dir |-> FALSE],
      [path |-> Some("template"), is_dir |-> TRUE],
      [path |-> Some("template"), is_dir |-> FALSE] }

\* the object exists: __init__ was called and has returned
Constructed == last.op # "none" /\ ~(last.op = "init" /\ last.err # "none")

Construct ==
    /\ last.op = "none"
    /\ \E picongpu_template_dir \in TemplateDirs :
          Apply("init", Simulation_init(Self, picongpu_template_dir))

\* sim.time_step_size = value, by the caller
SetTimeStepSize ==
    /\ Constructed
    /\ \E value \in Optional({CHOOSE t \in TimeStepSizes : TRUE}) :
          Apply("set_time_step_size",
                Outcome([Self EXCEPT !.time_step_size = value], "none", <<>>))

\* sim.solver.cfl = value, by the caller
SetCfl ==
    /\ Constructed
    /\ \E value \in Optional({CHOOSE v \in CflValues : TRUE}) :
          Apply("set_cfl", Outcome([Self EXCEPT !.solver.cfl = value], "none", <<>>))

InitConstruct ==
    /\ species = <<>>
    /\ layouts = <<>>
    /\ obj = <<>>
    /\ electron_species = None
    /\ time_step_size \in Optional(TimeStepSizes)
    /\ \E method \in {"Yee", "PSATD"}, cfl \in Optional(CflValues), grid \in Grids :
           solver = [method |-> method, cfl |-> cfl, grid |-> grid]
    /\ cfg = NoUserInput
    /\ last = NotCalled

NextConstruct ==
    \/ Construct
    \/ SetTimeStepSize
    \/ SetCfl
    \/ (Constructed /\ GetAsPypicongpu)

SpecConstruct == InitConstruct /\ [][NextConstruct]_vars

(***************************************************************************)
(* Repetition: get_as_pypicongpu called again and again on the simulations *)
(* of the ionization, the caller changing nothing in between.              *)
(***************************************************************************)
InitRepeat == InitIonization

NextRepeat == GetAsPypicongpu

SpecRepeat == InitRepeat /\ [][NextRepeat]_vars

(***************************************************************************)
(* Typical ppc: the simulations of the placement, with picongpu_typical_ppc *)
(* left unset or set to a value below 1 or above.                          *)
(***************************************************************************)
TypicalPpcInputs ==
    { [NoUserInput EXCEPT !.picongpu_typical_ppc = ppc] : ppc \in {Nothing, Some(0), Some(3)} }

InitTypicalPpc ==
    /\ \E k \in 0..MaxPlaced : InitSpecies(k, {"ion"}, PlacementVariants, {})
    /\ electron_species = None
    /\ time_step_size = Nothing
    /\ solver = DefaultSolver
    /\ cfg \in TypicalPpcInputs
    /\ last = NotCalled

NextTypicalPpc == GetAsPypicongpu

SpecTypicalPpc == InitTypicalPpc /\ [][NextTypicalPpc]_vars

(***************************************************************************)
(* Properties of the electron resolution (under SpecElectrons)             *)
(***************************************************************************)
\* the electron-like species among the registered ones, by the rule of the spec
ElectronLike(self) ==
    { id \in Range(self.species) :
        \/ self.obj[id].particle_type = Some("electron")
        \/ /\ IsSet(self.obj[id].mass) /\ IsSet(self.obj[id].charge)
           /\ Val(self.obj[id].mass) \in {m_e, m_e + 1}
           /\ Val(self.obj[id].charge) \in {-q_e, -q_e - 1} }

NamesOf(self, ids) == {self.obj[id].name : id \in ids}

Called(op) == last.op = op

\* C1: once a call of __get_electron_species has succeeded, its result stays
\* memoized, every later call returns that same species, and no operation
\* but the user's add_species makes the species list grow.
C1_ResolutionIsIdempotent ==
    [][ /\ (last'.op = "get_electron_species" /\ last'.err = "none")
            => electron_species' = last'.ret
        /\ electron_species # None => electron_species' = electron_species
        /\ (electron_species # None /\ last'.op = "get_electron_species")
            => (last'.err = "none" /\ last'.ret = electron_species)
        /\ (electron_species # None /\ last'.op # "add_species")
            => species' = species ]_vars

\* a later call returned the memoized species although by now two
\* electron-like species are registered
C1_Witness ==
    /\ Called("get_electron_species")
    /\ last.pre.electron_species # None
    /\ last.ret = last.pre.electron_species
    /\ Cardinality(ElectronLike(last.pre)) >= 2

\* C2 as stated: any call on a simulation with two or more electron-like
\* species fails with the ambiguity error naming every one of them.
C2_AmbiguityAlways ==
    (Called("get_electron_species") /\ Cardinality(ElectronLike(last.pre)) >= 2)
        => /\ last.err = "ValueError"
           /\ Range(last.ret) = NamesOf(last.pre, ElectronLike(last.pre))

\* C2 amended: a call made while no electron species is memoized, on a
\* simulation with two or more electron-like species, fails with the ambiguity
\* error naming every one of them, and changes nothing.
C2_AmbiguityUnlessCached ==
    (/\ Called("get_electron_species")
     /\ last.pre.electron_species = None
     /\ Cardinality(ElectronLike(last.pre)) >= 2)
        => /\ last.err = "ValueError"
           /\ Range(last.ret) = NamesOf(last.pre, ElectronLike(last.pre))
           /\ Len(last.ret) = Cardinality(ElectronLike(last.pre))
           /\ Self = last.pre

\* an ambiguity between an electron by type and one by mass and charge, with a
\* species that is no electron registered too
C2_Witness ==
    /\ Called("get_electron_species")
    /\ last.err = "ValueError"
    /\ \E a, b \in ElectronLike(last.pre) :
          /\ last.pre.obj[a].particle_type = Some("electron")
          /\ last.pre.obj[b].particle_type = Nothing
    /\ Range(last.pre.species) \ ElectronLike(last.pre) # {}

\* the number of "_" that follow "e" in the name the resolver must choose
SmallestFree(names) ==
    CHOOSE k \in 0..Cardinality(names) :
        /\ Escaped("e", k) \notin names
        /\ \A j \in 0..(k - 1) : Escaped("e", j) \in names

\* C3: a call on a simulation without electron-like species appends exactly
\* one new species, with layout None, of particle_type "electron", named "e"
\* plus the fewest "_" that make the name new, and returns it.
C3_SynthesizedElectrons ==
    (Called("get_electron_species") /\ ElectronLike(last.pre) = {})
        => LET n == Len(last.pre.species)
               names == NamesOf(last.pre, Range(last.pre.species))
           IN  /\ last.err = "none"
               /\ Len(species) = n + 1
               /\ Len(layouts) = Len(species)
               /\ SubSeq(species, 1, n) = last.pre.species
               /\ SubSeq(layouts, 1, n) = last.pre.layouts
               /\ layouts[n + 1] = None
               /\ last.ret = species[n + 1]
               /\ last.ret \notin DOMAIN last.pre.obj
               /\ obj[last.ret].particle_type = Some("electron")
               /\ obj[last.ret].name = Escaped("e", SmallestFree(names))
               /\ obj[last.ret].name \notin names

\* electrons were created while "e" and "e_" were taken
C3_Witness ==
    /\ Called("get_electron_species")
    /\ ElectronLike(last.pre) = {}
    /\ {"e", "e_"} \subseteq NamesOf(last.pre, Range(last.pre.species))
    /\ last.err = "none"
    /\ obj[last.ret].name = "e__"

\* the species __resolve_electrons has to give a donor
Needy(self) ==
    { id \in Range(self.species) :
        /\ self.obj[id].ionization_models >= 1
        /\ self.obj[id].picongpu_ionization_electrons = None }

\* C4: a successful __resolve_electrons gives every registered species with an
\* ionization model and no donor the resolved electron species as donor and
\* leaves every other donor as it was; without such a species it resolves
\* nothing and adds no species.
C4_DonorPropagation ==
    Called("resolve_electrons") =>
        /\ last.err = "none" =>
              /\ \A id \in Needy(last.pre) :
                    /\ obj[id].picongpu_ionization_electrons = electron_species
                    /\ electron_species = get_electron_species(last.pre).ret
              /\ \A id \in (DOMAIN last.pre.obj) \ Needy(last.pre) :
                    obj[id] = last.pre.obj[id]
              /\ \A id \in DOMAIN last.pre.obj :
                    [obj[id] EXCEPT !.picongpu_ionization_electrons = None]
                        = [last.pre.obj[id] EXCEPT !.picongpu_ionization_electrons = None]
        /\ Needy(last.pre) = {} =>
              /\ last.err = "none"
              /\ Self = last.pre

\* donors were filled in with electrons created for it, next to a species
\* whose donor the user had set
C4_Witness ==
    /\ Called("resolve_electrons")
    /\ last.err = "none"
    /\ Needy(last.pre) # {}
    /\ \E id \in Range(last.pre.species) :
          /\ last.pre.obj[id].ionization_models >= 1
          /\ last.pre.obj[id].picongpu_ionization_electrons # None
          /\ obj[id].picongpu_ionization_electrons # electron_species
    /\ Len(species) = Len(last.pre.species) + 1

(***************************************************************************)
(* Properties of the plan (under SpecPlacement and SpecIonization)         *)
(***************************************************************************)
\* a plan was returned, by __get_init_manager or inside the Simulation that
\* get_as_pypicongpu returned; it was assembled from the species as they are now
PlanReturned ==
    /\ last.op \in {"get_init_manager", "get_as_pypicongpu"}
    /\ last.err = "none"

Plan == IF Called("get_as_pypicongpu") THEN last.ret.init_manager ELSE last.ret

\* positions of the species with both layout and profile, and with neither
IsPlaced(self, i) ==
    self.layouts[i] # None /\ self.obj[self.species[i]].initial_distribution # None

IsUnplaced(self, i) ==
    self.layouts[i] = None /\ self.obj[self.species[i]].initial_distribution = None

Placed(self) == {i \in 1..Len(self.species) : IsPlaced(self, i)}

\* the layout and the profile of the species at position i, by value
Placement(self, i) ==
    <<LayoutValue(self.layouts[i]),
      ProfileValue(self.obj[self.species[i]].initial_distribution)>>

OperationsOfType(plan, type) ==
    {k \in 1..Len(plan.all_operations) : plan.all_operations[k].type = type}

\* C6: in a plan returned, two placed species are in the species set of one
\* SimpleDensity operation exactly if their layouts are equal by value and
\* their profiles are equal by value; every SimpleDensity operation has a
\* species set that is not empty and is of placed species of its layout and
\* profile; there are as many SimpleDensity operations as distinct
\* (layout, profile) values among the placed species.
C6_GroupingByValue ==
    PlanReturned =>
        LET ops == Plan.all_operations
            density == OperationsOfType(Plan, "SimpleDensity")
        IN  /\ \A i, j \in Placed(Self) :
                  (\E k \in density : {i, j} \subseteq ops[k].species)
                      <=> Placement(Self, i) = Placement(Self, j)
            /\ \A k \in density :
                  /\ ops[k].species # {}
                  /\ ops[k].species \subseteq Placed(Self)
                  /\ \A i \in ops[k].species :
                        Placement(Self, i)
                            = <<[kind |-> "PseudoRandomLayout",
                                 n_macroparticles_per_cell |-> ops[k].ppc],
                                ops[k].profile>>
            /\ Cardinality(density)
                  = Cardinality({Placement(Self, i) : i \in Placed(Self)})

\* two species with distinct layout objects of equal value share an operation,
\* and a third with an equal layout and another profile has one of its own
C6_Witness ==
    /\ PlanReturned
    /\ Cardinality(OperationsOfType(Plan, "SimpleDensity")) = 2
    /\ \E i, j, k \in Placed(Self) :
          /\ layouts[i] # layouts[j]
          /\ Placement(Self, i) = Placement(Self, j)
          /\ Placement(Self, k)[1] = Placement(Self, i)[1]
          /\ Placement(Self, k)[2] # Placement(Self, i)[2]
          /\ \E o \in OperationsOfType(Plan, "SimpleDensity") :
                Plan.all_operations[o].species = {i, j}

\* C7: in a plan returned, every species with neither layout nor profile (the
\* electrons created by the resolution too) is the species of exactly one
\* NotPlaced operation and in the species set of no SimpleDensity operation;
\* every species with both is the species of no NotPlaced operation.
C7_NotPlacedOnce ==
    PlanReturned =>
        LET ops == Plan.all_operations
            not_placed(i) == {k \in OperationsOfType(Plan, "NotPlaced") : ops[k].species = i}
        IN  \A i \in 1..Len(species) :
                /\ IsUnplaced(Self, i) =>
                      /\ Cardinality(not_placed(i)) = 1
                      /\ \A k \in OperationsOfType(Plan, "SimpleDensity") :
                            i \notin ops[k].species
                /\ IsPlaced(Self, i) => not_placed(i) = {}

\* a plan for a placed species, a species not placed and the electrons just
\* created for it
C7_Witness ==
    /\ Called("get_as_pypicongpu")
    /\ last.err = "none"
    /\ Len(species) = Len(last.pre.species) + 1
    /\ Placed(Self) # {}
    /\ Cardinality(OperationsOfType(Plan, "NotPlaced")) = 2
    /\ \E k \in OperationsOfType(Plan, "NotPlaced") :
          Plan.all_operations[k].species = Len(species)

\* the species __get_init_manager must reject
IsMisplaced(self, i) ==
    LET layout == self.layouts[i]
        profile == self.obj[self.species[i]].initial_distribution
    IN  \/ layout # None /\ profile = None
        \/ layout = None /\ profile # None
        \/ /\ IsSet(self.obj[self.species[i]].density_scale)
           /\ (layout = None \/ profile = None)

Misplaced(self) == {i \in 1..Len(self.species) : IsMisplaced(self, i)}

\* C8: with a species that has exactly one of layout and profile, or a
\* density_scale without both, __get_init_manager fails with no species
\* translated and no operation generated, and get_as_pypicongpu returns
\* nothing.
C8_RejectedBeforeTranslation ==
    /\ (Called("get_init_manager") /\ Misplaced(last.pre) # {})
          => /\ last.err = "AssertionError"
             /\ last.ret = InitManager(<<>>, <<>>)
             /\ Self = last.pre
    /\ (Called("get_as_pypicongpu") /\ Misplaced(last.pre) # {})
          => /\ last.err # "none"
             /\ last.ret = <<>>

\* rejected for its last species, after species that could have been
\* translated and placed
C8_Witness ==
    /\ Called("get_init_manager")
    /\ last.err = "AssertionError"
    /\ Len(last.pre.species) >= 2
    /\ Misplaced(last.pre) = {Len(last.pre.species)}
    /\ 1 \in Placed(last.pre)

\* the species with an ionization model
Ionizing(self) == {id \in Range(self.species) : self.obj[id].ionization_models >= 1}

\* C9: __fill_ionization_electrons fails if the donor of a species with an
\* ionization model is not registered; otherwise it sets the link of every
\* ionization model of every such species to the translated donor.  In a plan
\* returned, every link is a position of all_species, that of the translation
\* of the donor.
C9_LinksToTranslatedDonors ==
    /\ (Called("get_init_manager") /\ Misplaced(last.pre) = {}) =>
          IF \E id \in Ionizing(last.pre) :
                last.pre.obj[id].picongpu_ionization_electrons \notin Range(last.pre.species)
          THEN last.err \in {"AssertionError", "AttributeError"}
          ELSE /\ Len(last.ret.all_species) = Len(last.pre.species)
               /\ \A i \in 1..Len(last.pre.species) :
                     LET id == last.pre.species[i]
                         models == last.ret.all_species[i].ionization_models
                     IN  /\ Len(models) = last.pre.obj[id].ionization_models
                         /\ \A m \in 1..Len(models) :
                               last.pre.species[models[m].ionization_electron_species]
                                   = last.pre.obj[id].picongpu_ionization_electrons
    /\ PlanReturned =>
          \A i \in 1..Len(Plan.all_species) :
              \A m \in 1..Len(Plan.all_species[i].ionization_models) :
                  LET link == Plan.all_species[i].ionization_models[m].ionization_electron_species
                  IN  /\ link \in 1..Len(Plan.all_species)
                      /\ Plan.all_species[link].picmi
                            = obj[Plan.all_species[i].picmi].picongpu_ionization_electrons

\* both ionization models of a species were linked to the translation of
\* electrons that a resolution before had created
C9_Witness ==
    /\ Called("get_init_manager")
    /\ last.err = "none"
    /\ \E i \in 1..Len(species) :
          /\ Len(last.ret.all_species[i].ionization_models) = 2
          /\ last.ret.all_species[i].ionization_models[2].ionization_electron_species
                = Len(species)
          /\ species[Len(species)] = electron_species
          /\ i # Len(species)

\* nothing but the missing electrons stands against a plan: the run time is
\* given, no unsupported feature is used, no species is misplaced, the donors
\* the user has set are registered, and the typical ppc is not overridden by
\* less than 1
OtherwiseValid(self) ==
    /\ TimeSteps(self).err = "none"
    /\ UnsupportedFeature(self) = "none"
    /\ Misplaced(self) = {}
    /\ \A id \in Ionizing(self) :
          self.obj[id].picongpu_ionization_electrons \in Range(self.species) \cup {None}
    /\ \A i \in Placed(self) : LayoutValue(self.layouts[i]).kind = "PseudoRandomLayout"
    /\ IsSet(self.cfg.picongpu_typical_ppc) => Val(self.cfg.picongpu_typical_ppc) >= 1

\* C10: get_as_pypicongpu on a simulation, valid otherwise, with a species
\* that has an ionization model and no donor, and with no electron-like
\* species, succeeds: the electrons it creates (named "e" if that name is
\* free) are appended to species and layouts before the plan is assembled, so
\* that the plan holds their translation as its last species and every
\* ionization model of the species without donor links to it.
C10_ElectronsBeforePlan ==
    (/\ Called("get_as_pypicongpu")
     /\ Needy(last.pre) # {}
     /\ ElectronLike(last.pre) = {}
     /\ OtherwiseValid(last.pre))
        => LET n == Len(last.pre.species)
           IN  /\ last.err = "none"
               /\ Len(species) = n + 1
               /\ Len(layouts) = n + 1
               /\ species[n + 1] \notin DOMAIN last.pre.obj
               /\ obj[species[n + 1]].particle_type = Some("electron")
               /\ "e" \notin NamesOf(last.pre, Range(last.pre.species))
                     => obj[species[n + 1]].name = "e"
               /\ Len(Plan.all_species) = n + 1
               /\ Plan.all_species[n + 1].picmi = species[n + 1]
               /\ Plan.all_species[n + 1].name = obj[species[n + 1]].name
               /\ \A i \in 1..n :
                     species[i] \in Needy(last.pre) =>
                         /\ Plan.all_species[i].ionization_models # <<>>
                         /\ \A m \in 1..Len(Plan.all_species[i].ionization_models) :
                               Plan.all_species[i].ionization_models[m]
                                   .ionization_electron_species = n + 1

\* scenario B: a species with an ionization model alone, electrons "e"
\* created, the model linked to them
C10_Witness ==
    /\ Called("get_as_pypicongpu")
    /\ last.err = "none"
    /\ Len(last.pre.species) = 1
    /\ Needy(last.pre) = {1}
    /\ Len(Plan.all_species) = 2
    /\ Plan.all_species[2].name = "e"
    /\ Plan.all_species[1].ionization_models[1].ionization_electron_species = 2

\* C14: in a plan returned, all_species holds one translated species per
\* registered species, in the order of registration, and operations and links
\* refer to these very translations; all_operations is the SimpleDensity
\* operations, then the NotPlaced operations (in the order of their species),
\* then the Independent operations, those of each species in the order of the
\* species.
C14_PlanOrder ==
    PlanReturned =>
        LET ops == Plan.all_operations
            density == OperationsOfType(Plan, "SimpleDensity")
            not_placed == OperationsOfType(Plan, "NotPlaced")
            independent == OperationsOfType(Plan, "Independent")
            positions == 1..Len(Plan.all_species)
        IN  /\ Len(Plan.all_species) = Len(species)
            /\ \A i \in positions :
                  /\ Plan.all_species[i].picmi = species[i]
                  /\ Plan.all_species[i].name = obj[species[i]].name
                  /\ \A m \in 1..Len(Plan.all_species[i].ionization_models) :
                        Plan.all_species[i].ionization_models[m].ionization_electron_species
                            \in positions
            /\ density \cup not_placed \cup independent = 1..Len(ops)
            /\ \A k \in density : \A n \in not_placed \cup independent : k < n
            /\ \A n \in not_placed : \A k \in independent : n < k
            /\ \A k \in density : ops[k].species \subseteq positions
            /\ \A k, n \in not_placed : k < n => ops[k].species < ops[n].species
            /\ Cardinality(independent) = Len(species)
            /\ \A k \in independent :
                  ops[k].species = k - Cardinality(density) - Cardinality(not_placed)

\* a plan with operations of all three kinds, the species not placed
\* registered before a placed one
C14_Witness ==
    /\ PlanReturned
    /\ Len(species) >= 3
    /\ Cardinality(OperationsOfType(Plan, "SimpleDensity")) >= 1
    /\ Cardinality(OperationsOfType(Plan, "NotPlaced")) >= 1
    /\ IsUnplaced(Self, 1)
    /\ IsPlaced(Self, 2)
    /\ Plan.all_operations[Len(Plan.all_operations)].type = "Independent"

(***************************************************************************)
(* Properties of get_as_pypicongpu                                         *)
(***************************************************************************)
\* C11: a call of get_as_pypicongpu that follows a successful one, with no
\* change in between, succeeds too and returns the same plan (the same
\* species in the same order, the same operations, the same links of the
\* ionization models), and leaves species, layouts, the donors and the
\* memoized electrons as the first call left them.
C11_RepeatedResolution ==
    [][ (/\ last.op = "get_as_pypicongpu"
         /\ last.err = "none"
         /\ last'.op = "get_as_pypicongpu")
            => /\ last'.err = "none"
               /\ last'.ret.init_manager = last.ret.init_manager
               /\ last'.ret = last.ret
               /\ species' = species
               /\ layouts' = layouts
               /\ obj' = obj
               /\ electron_species' = electron_species ]_vars

\* a second call (under SpecRepeat nothing but an earlier call can have
\* created and memoized the electrons) that found the electrons of the first
\* one and linked an ionization model to them again
C11_Witness ==
    /\ Called("get_as_pypicongpu")
    /\ last.err = "none"
    /\ last.pre.electron_species # None
    /\ last.pre.electron_species = last.pre.species[Len(last.pre.species)]
    /\ last.pre.obj[last.pre.electron_species].name = "e"
    /\ Self = last.pre
    /\ \E i \in 1..Len(species) :
          /\ Plan.all_species[i].ionization_models # <<>>
          /\ Plan.all_species[i].ionization_models[1].ionization_electron_species
                = Len(species)

\* C12: a Simulation returned by get_as_pypicongpu has typical_ppc >= 1, the
\* value of picongpu_typical_ppc if the user has set it and the typical
\* particles per cell of the plan otherwise; with picongpu_typical_ppc below 1
\* no Simulation is returned, and ValueError is raised if nothing else stands
\* against a Simulation.
C12_TypicalPpc ==
    Called("get_as_pypicongpu") =>
        LET override == last.pre.cfg.picongpu_typical_ppc
        IN  /\ last.err = "none" =>
                  /\ last.ret.typical_ppc >= 1
                  /\ IsSet(override) => last.ret.typical_ppc = Val(override)
                  /\ ~IsSet(override) =>
                        last.ret.typical_ppc
                            = get_typical_particle_per_cell(last.ret.init_manager)
            /\ (IsSet(override) /\ Val(override) < 1) =>
                  /\ last.err # "none"
                  /\ last.ret = <<>>
                  /\ OtherwiseValid([last.pre EXCEPT !.cfg.picongpu_typical_ppc = Nothing])
                        => last.err = "ValueError"

\* the value set by the user was handed on though the plan, with its three
\* SimpleDensity operations, has another
C12_Witness ==
    /\ Called("get_as_pypicongpu")
    /\ last.err = "none"
    /\ last.pre.cfg.picongpu_typical_ppc = Some(3)
    /\ last.ret.typical_ppc = 3
    /\ Cardinality(OperationsOfType(Plan, "SimpleDensity")) = 3
    /\ get_typical_particle_per_cell(last.ret.init_manager) # 3

\* the simulations the reconciliation applies to, and those with exactly one
\* of time_step_size and cfl set
YeeOnCartesian(self) ==
    self.solver.method = "Yee" /\ self.solver.grid.kind = "Cartesian3DGrid"

ExactlyOneSet(self) == IsSet(self.time_step_size) # IsSet(self.solver.cfl)

\* cfl and time step are as the reconciliation derives one from the other,
\* `given` being the simulation it started from
Derived(given, delta_t, cfl) ==
    LET S == CourantFactor(given.solver.grid)
    IN  /\ IsSet(delta_t) /\ IsSet(cfl)
        /\ IsSet(given.time_step_size) =>
              delta_t = given.time_step_size /\ Val(cfl) = FMul(Val(delta_t), S)
        /\ IsSet(given.solver.cfl) =>
              cfl = given.solver.cfl /\ Val(delta_t) = FDiv(Val(cfl), S)

\* C13 as stated: a Simulation returned for a Yee solver on a Cartesian 3-D
\* grid, with exactly one of time_step_size and cfl set when the call of
\* get_as_pypicongpu started, has both set, with cfl = time step * S.
C13_ReconciledByResolution ==
    (/\ Called("get_as_pypicongpu")
     /\ last.err = "none"
     /\ YeeOnCartesian(last.pre)
     /\ ExactlyOneSet(last.pre))
        => /\ IsSet(last.ret.delta_t_si)
           /\ IsSet(last.ret.solver.cfl)
           /\ Val(last.ret.solver.cfl)
                 = FMul(Val(last.ret.delta_t_si), CourantFactor(last.pre.solver.grid))

\* C13 amended: time step and cfl are reconciled by __init__, not by
\* get_as_pypicongpu, which hands both on as they are when it starts.  After
\* the construction of a simulation of a Yee solver on a Cartesian 3-D grid
\* with exactly one of them set, both are set (cfl = time step * S if the time
\* step was given, time step = cfl / S if cfl was given), and so they are in
\* the Simulation that a call of get_as_pypicongpu right after returns.
C13_ReconciledAtConstruction ==
    [][ /\ (last'.op = "get_as_pypicongpu" /\ last'.err = "none")
            => /\ last'.ret.delta_t_si = time_step_size
               /\ last'.ret.solver.cfl = solver.cfl
               /\ time_step_size' = time_step_size
               /\ solver' = solver
        /\ (/\ last'.op = "init" /\ last'.err = "none"
            /\ YeeOnCartesian(Self) /\ ExactlyOneSet(Self))
            => Derived(Self, time_step_size', solver'.cfl)
        /\ (/\ last.op = "init" /\ last.err = "none"
            /\ YeeOnCartesian(last.pre) /\ ExactlyOneSet(last.pre)
            /\ last'.op = "get_as_pypicongpu" /\ last'.err = "none")
            => Derived(last.pre, last'.ret.delta_t_si, last'.ret.solver.cfl) ]_vars

\* a Simulation with a time step and cfl = time step * S, where cfl is no
\* value that the caller gives (to __init__ or later): __init__ has derived it
C13_Witness ==
    /\ Called("get_as_pypicongpu")
    /\ last.err = "none"
    /\ YeeOnCartesian(last.pre)
    /\ IsSet(last.ret.delta_t_si)
    /\ IsSet(last.ret.solver.cfl)
    /\ Val(last.ret.solver.cfl) \notin CflValues
    /\ Val(last.ret.solver.cfl)
          = FMul(Val(last.ret.delta_t_si), CourantFactor(last.pre.solver.grid))

(***************************************************************************)
(* Properties of the solver parameters (under SpecYee)                     *)
(***************************************************************************)
YeeCalled ==
    /\ Called("yee_compute_cfl_or_delta_t")
    /\ last.pre.solver.method = "Yee"
    /\ last.pre.solver.grid.kind = "Cartesian3DGrid"

\* C5 as stated: with both given, they are accepted and left as they are when
\* cfl = time step * S, and rejected and left as they are otherwise.
C5_ConsistencyByCfl ==
    YeeCalled =>
        LET dt  == last.pre.time_step_size
            cfl == last.pre.solver.cfl
            S   == CourantFactor(last.pre.solver.grid)
        IN  (IsSet(dt) /\ IsSet(cfl)) =>
                IF Val(cfl) = FMul(Val(dt), S)
                THEN last.err = "none" /\ Self = last.pre
                ELSE last.err = "ValueError" /\ Self = last.pre

\* C5 amended: with both given, they are accepted when
\* time step = cfl / S and rejected otherwise, the error naming the time step
\* and cfl / S; with one given the other is derived (cfl = time step * S,
\* time step = cfl / S); with none given nothing is set.
C5_Reconciliation ==
    YeeCalled =>
        LET dt  == last.pre.time_step_size
            cfl == last.pre.solver.cfl
            S   == CourantFactor(last.pre.solver.grid)
            others == [last.pre EXCEPT !.time_step_size = time_step_size,
                                       !.solver.cfl = solver.cfl]
        IN  /\ Self = others
            /\ (IsSet(dt) /\ IsSet(cfl) /\ Val(dt) = FDiv(Val(cfl), S))
                  => (last.err = "none" /\ Self = last.pre)
            /\ (IsSet(dt) /\ IsSet(cfl) /\ Val(dt) # FDiv(Val(cfl), S))
                  => /\ last.err = "ValueError"
                     /\ last.ret = <<Val(dt), FDiv(Val(cfl), S)>>
                     /\ Self = last.pre
            /\ (IsSet(dt) /\ ~IsSet(cfl))
                  => /\ last.err = "none"
                     /\ time_step_size = dt
                     /\ solver.cfl = Some(FMul(Val(dt), S))
            /\ (~IsSet(dt) /\ IsSet(cfl))
                  => /\ last.err = "none"
                     /\ solver.cfl = cfl
                     /\ time_step_size = Some(FDiv(Val(cfl), S))
            /\ (~IsSet(dt) /\ ~IsSet(cfl))
                  => (last.err = "none" /\ Self = last.pre)

\* both were given and accepted, the time step being cfl / S although the
\* cfl value is not time step * S
C5_Witness ==
    /\ YeeCalled
    /\ IsSet(last.pre.time_step_size) /\ IsSet(last.pre.solver.cfl)
    /\ Val(last.pre.time_step_size)
           = FDiv(Val(last.pre.solver.cfl), CourantFactor(last.pre.solver.grid))
    /\ Val(last.pre.solver.cfl)
           # FMul(Val(last.pre.time_step_size), CourantFactor(last.pre.solver.grid))
    /\ last.err = "none"

====
